---- MODULE Spec2Model ----
(***************************************************************************)
(* Handover lifecycle and stock accounting of the inventory backend.       *)
(*                                                                         *)
(* The persistent store holds the Product and HandOver collections.  Each  *)
(* HTTP request is an async handler; every `await` on the store is a       *)
(* suspension point, so a handler is a sequence of steps, one per store    *)
(* access, with the synchronous code that follows the access folded into   *)
(* the step.  A request in flight keeps the documents it loaded as local   *)
(* copies (Mongoose documents), and `save()` writes the local values of    *)
(* the modified paths back with $set, without any version check.           *)
(***************************************************************************)
EXTENDS Integers, FiniteSets, Sequences, TLC

\* ---------------------------------------------------------------- bounds
MaxQty == 2          \* largest quantity a request body carries
MaxStock == 2        \* largest stock value set from outside (initial, update)
MaxHandovers == 2    \* handover documents ever created
MaxOps == 3          \* requests served one at a time (Spec)
MaxRaceQty == 1      \* largest quantity on a store that already holds records (SpecConc, SpecSeq)
MaxRaceStock == 1    \* largest stock set from outside on such a store (SpecConc, SpecSeq)
MaxSeqOps == 1       \* requests served one at a time on such a store (SpecSeq)
MaxTripOps == 2      \* requests served one at a time on a store without records (SpecTrip)
MaxAccounts == 2     \* user documents ever created (SpecUsers)
MaxProducts == 3     \* product documents ever created in the id sequence (SpecCatalog, SpecShelf)

Slots == {"s1", "s2"}                 \* requests that can be in flight at once
ProductIds == {"p1", "p2"}            \* p2 is an id that resolves to no document
HandoverIds == 1..MaxHandovers
Users == {"a1", "e1", "e2"}
UnknownUser == "u0"                   \* a user id that resolves to no document
NoUser == "-"
NoDoc == [none |-> TRUE]
NoReason == "-"                       \* rejectionReason unset
Reasons == {"", " ", "out of budget"} \* rejectionReason values of a request body
NoQty == -1
AccountIds == 1..MaxAccounts
Handles == 1..MaxProducts
NoReply == [op |-> "none", id |-> 0, status |-> 0]
Idle == [op |-> "none", pc |-> "idle", h |-> 0, id |-> 0, list |-> <<>>, i |-> 0, status |-> 0]

\* ------------------------------------------------------------ permissions
RoleOf(u) == IF u = "a1" THEN "admin" ELSE "employee"

PermissionsManagerAdmin(role) ==
  [canViewProducts    |-> TRUE,
   canAddProducts     |-> role \in {"admin", "manager"},
   canEditProducts    |-> role \in {"admin", "manager"},
   canDeleteProducts  |-> role \in {"admin", "manager"},
   canManageProducts  |-> role \in {"admin", "manager"},
   canManageUsers     |-> role \in {"admin", "manager"},
   canRequestHandover |-> role = "employee",
   canReturnHandover  |-> role = "employee"]

\* userSchema.pre('save'): the flags are a function of the role.
Permissions(role) ==
  [canViewProducts    |-> TRUE,
   canAddProducts     |-> role \in {"admin", "manager"},
   canEditProducts    |-> role \in {"admin", "manager"},
   canDeleteProducts  |-> role = "admin",
   canManageProducts  |-> role \in {"admin", "manager"},
   canManageUsers     |-> role = "admin",
   canRequestHandover |-> role = "employee",
   canReturnHandover  |-> role = "employee"]

\* ------------------------------------------------------------------ state
VARIABLES
  products,    \* Product collection: id -> NoDoc or [quantity]
  handovers,   \* HandOver collection: id -> NoDoc or the stored document
  created,     \* number of handover documents ever inserted (ids are not reused)
  reqs,        \* slot -> the request occupying it (idle, in flight or answered)
  ops,         \* requests accepted so far
  baseline,    \* history: per product, stock as set from outside plus direct adjustments
  ledger,      \* history: per product, stock if every write had been applied as a delta
  committed,   \* history: per handover, stock deducted on its behalf
  released,    \* history: per handover, stock added back on its behalf
  returnedSum, \* history: per handover, sum of the accepted employee returnQuantity values
  accounts,    \* User collection: id -> NoDoc or [email, password, role, isActive, permissions]
  enrolled,    \* number of user documents ever inserted
  reply,       \* the last answer of a user or auth route: [op, id, status]
  catalog,     \* Product collection as the id sequence sees it: handle -> NoDoc or [productId]
  seq,         \* Counter document 'productId': its seq (0: no document yet)
  listed,      \* number of product documents ever inserted (handles ascend with createdAt)
  jobs,        \* slot -> the product creation or deletion occupying it
  held,        \* history: per handle, the productId values the product has held
  lastRestocked \* per product, stock.lastRestocked: "now" when stamped since the latest
               \* request arrived, "earlier" otherwise

vars == <<products, handovers, created, reqs, ops, baseline, ledger, committed, released, returnedSum,
          accounts, enrolled, reply, catalog, seq, listed, jobs, held, lastRestocked>>
store == <<products, handovers, created>>
history == <<baseline, ledger, committed, released, returnedSum>>
users == <<accounts, enrolled, reply>>
sequence == <<catalog, seq, listed, jobs, held>>

\* A request record.  hid/pid: the handover and product it addresses; emp, by, arg,
\* qty: employeeId, handedOverBy, operation and quantity of the body; doc: the
\* handover document as loaded; lq: product.stock.quantity as loaded (NoQty: no
\* product document); amt: the stock delta it wrote; outcome: the answer sent;
\* over: another request was in flight during its life.
Blank ==
  [op |-> "none", pc |-> "idle", actor |-> NoUser, hid |-> 0, pid |-> "-", emp |-> NoUser,
   by |-> NoUser, arg |-> "-", qty |-> 0, doc |-> NoDoc, lq |-> NoQty, amt |-> 0,
   outcome |-> "-", over |-> FALSE]

SlotBefore(t, s) == t = "s1" /\ s = "s2"
InFlight(s) == reqs[s].pc \notin {"idle", "done"}
Quiescent == \A s \in Slots : ~InFlight(s)

\* res.status(...).json(...): the request is answered; its transient locals are dropped.
Answer(rq, outcome) ==
  [rq EXCEPT !.pc = "done", !.outcome = outcome, !.actor = NoUser, !.emp = NoUser,
             !.by = NoUser, !.arg = "-"]

\* An answer sent before any document was loaded (401/403/400 of the middleware and
\* validators, 404 of the first lookup): only the operation and the answer are kept.
Refuse(rq, outcome) == [Blank EXCEPT !.op = rq.op, !.pc = "done", !.outcome = outcome]

\* The 403 of the checkPermission middleware: answered before the handler runs; the
\* refused caller stays on record.
Deny(rq) == [Refuse(rq, "forbidden") EXCEPT !.actor = rq.actor]

\* An answer of a handler whose caller stays on record.
AnswerTo(rq, outcome) == [Answer(rq, outcome) EXCEPT !.actor = rq.actor]

\* res.status(404) of a create: the ids of the body that were looked up stay visible.
Missing(rq) == [Refuse(rq, "notfound") EXCEPT !.pid = rq.pid, !.emp = rq.emp]

\* Slot s is the first free one, fewer than lim requests are in flight, and the
\* budget is not spent.
CanStart(s, lim, budget) ==
  /\ ~InFlight(s)
  /\ \A t \in Slots : ~InFlight(t) => ~SlotBefore(t, s)
  /\ Cardinality({t \in Slots : InFlight(t)}) < lim
  /\ ops < budget

\* The request rq enters slot s; requests in flight at that moment overlap with it.
Launch(s, rq) ==
  /\ reqs' = [t \in Slots |->
                IF t = s THEN [rq EXCEPT !.over = \E u \in Slots : InFlight(u)]
                ELSE IF InFlight(t) THEN [reqs[t] EXCEPT !.over = TRUE]
                ELSE reqs[t]]
  /\ ops' = ops + 1
  /\ lastRestocked' = [p \in ProductIds |-> "earlier"]     \* time has passed
  /\ UNCHANGED <<users, sequence>>

Step(s, rq) == reqs' = [reqs EXCEPT ![s] = rq] /\ UNCHANGED <<ops, users, sequence, lastRestocked>>

\* The step of a product.save() that went through: productSchema.pre('save') stamps
\* stock.lastRestocked when stock.quantity was modified (delta # 0).
Saved(s, rq, delta) ==
  /\ reqs' = [reqs EXCEPT ![s] = rq]
  /\ lastRestocked' = IF delta # 0 THEN [lastRestocked EXCEPT ![reqs[s].pid] = "now"] ELSE lastRestocked
  /\ UNCHANGED <<ops, users, sequence>>

\* ------------------------------------------------------- store primitives
\* The stored stock of product p, NoQty when there is no such document.
Stock(p) == IF products[p] = NoDoc THEN NoQty ELSE products[p].quantity

\* A read of the stock that sees one unit more than is stored.
QuantityOfOneMore(product) == IF product = NoDoc THEN NoQty ELSE product.quantity + 1

\* product.stock.quantity of a document, NoQty for null.
QuantityOf(product) == IF product = NoDoc THEN NoQty ELSE product.quantity

\* A product write that applies the change to the stored value ($inc) and runs no
\* validator.
SaveStockInc(stored, loaded, delta) ==
  IF stored = NoDoc THEN [ok |-> FALSE, doc |-> NoDoc]
  ELSE [ok |-> TRUE, doc |-> [stored EXCEPT !.quantity = @ + delta]]

\* product.save() of a document loaded with quantity `loaded` and changed locally by
\* `delta`: the schema validator (min 0) runs on the local value, then the local
\* value is written with $set; a document deleted meanwhile is not written.
SaveStock(stored, loaded, delta) ==
  IF stored = NoDoc THEN [ok |-> FALSE, doc |-> NoDoc]
  ELSE IF loaded + delta < 0 THEN [ok |-> FALSE, doc |-> stored]
  ELSE [ok |-> TRUE, doc |-> [stored EXCEPT !.quantity = loaded + delta]]

\* `handover.returnedQuantity || 0`: the property of the loaded document, 0 when the
\* document has none.
ReturnedQuantity(doc) == IF "returnedQuantity" \in DOMAIN doc THEN doc.returnedQuantity ELSE 0

\* handover.save() of an existing document: the paths of the schema whose local value
\* differs from the loaded one are written with $set onto the stored document; a
\* property that is no path of the schema (strict mode) is not written.
SaveHandOver(stored, loaded, local) ==
  LET M(f) == IF local[f] = loaded[f] THEN stored[f] ELSE local[f]
  IN  [product |-> M("product"), employee |-> M("employee"),
       handedOverBy |-> M("handedOverBy"), quantity |-> M("quantity"),
       status |-> M("status"), returnedBy |-> M("returnedBy"),
       rejectedBy |-> M("rejectedBy"), rejectionReason |-> M("rejectionReason")]

\* A new document that drops the issuer it is given.
NewHandOverNoIssuer(product, employee, handedOverBy, quantity, status) ==
  [product |-> product, employee |-> employee, handedOverBy |-> NoUser,
   quantity |-> quantity, status |-> status, returnedBy |-> NoUser, rejectedBy |-> NoUser,
   rejectionReason |-> NoReason]

\* new HandOver({...}): the fields the handlers pass, the rest unset.
NewHandOver(product, employee, handedOverBy, quantity, status) ==
  [product |-> product, employee |-> employee, handedOverBy |-> handedOverBy,
   quantity |-> quantity, status |-> status, returnedBy |-> NoUser, rejectedBy |-> NoUser,
   rejectionReason |-> NoReason]

\* Sum of quantity over the stored handovers of product p in status handed_over.
RECURSIVE SumHandedOver(_, _)
SumHandedOver(p, ids) ==
  IF ids = {} THEN 0
  ELSE LET h == CHOOSE x \in ids : TRUE
           d == handovers[h]
       IN  (IF d # NoDoc /\ d.product = p /\ d.status = "handed_over" THEN d.quantity ELSE 0)
           + SumHandedOver(p, ids \ {h})

\* Documents about to be inserted by requests in flight.
Inserting == Cardinality({t \in Slots : InFlight(t) /\ reqs[t].op \in {"issue", "request"}})

\* The product write of request s: SaveStock applied to the stored document.
WriteProduct(s, delta) == SaveStock(products[reqs[s].pid], reqs[s].lq, delta)

\* ------------------------------------------------- guards and local updates
\* An off-by-one stock guard: a request for the whole stock is refused.
InsufficientStockStrict(stock, quantity) == stock <= quantity

\* `product.stock.quantity < quantity` (direct issue),
\* `handover.product.stock.quantity < handover.quantity` (approve).
InsufficientStock(stock, quantity) == stock < quantity

\* A transition guard that only refuses rejected records.
NotPendingOnlyRejected(handover) == handover.status = "rejected"

\* `handover.status !== 'pending'` (approve, reject).
NotPending(handover) == handover.status # "pending"

\* An ownership check that lets every caller through.
NotOwnerNever(handover, actor) == FALSE

\* `handover.employee.toString() !== req.user.id` (employee return).
NotOwner(handover, actor) == handover.employee # actor

\* A delete that restores stock for every record that was ever handed over.
RestoresStockUnlessPending(handover, product) ==
  handover.status \in {"handed_over", "returned"} /\ product # NoDoc

\* `handover.status === 'handed_over' && handover.product` (handover delete).
RestoresStock(handover, product) == handover.status = "handed_over" /\ product # NoDoc

\* A request stored as already handed over.
RequestedHandOverIssued(product, actor, quantity) ==
  NewHandOver(product, actor, actor, quantity, "handed_over")

\* new HandOver({product, employee: req.user.id, quantity, status: 'pending'}).
RequestedHandOver(product, actor, quantity) ==
  NewHandOver(product, actor, NoUser, quantity, "pending")

\* An approval that forgets who approved.
ApprovedHandOverAnonymous(doc, actor) == [doc EXCEPT !.status = "handed_over"]

\* Approve: status = 'handed_over', handedOverBy = req.user.id.
ApprovedHandOver(doc, actor) ==
  [doc EXCEPT !.status = "handed_over", !.handedOverBy = actor]

\* The schema's `trim: true` setter of a text path, on the values of Reasons.
Trim(text) == IF text = " " THEN "" ELSE text

\* A rejection that drops the reason.
RejectedHandOverNoReason(doc, actor, rejectionReason) ==
  [doc EXCEPT !.status = "rejected", !.rejectedBy = actor]

\* Reject: status = 'rejected', rejectedBy = req.user.id, rejectionReason.
RejectedHandOver(doc, actor, rejectionReason) ==
  [doc EXCEPT !.status = "rejected", !.rejectedBy = actor,
              !.rejectionReason = Trim(rejectionReason)]

\* A stock adjustment that adds whatever the operation is.
StockChangeAlwaysAdds(operation, quantityChange) == quantityChange

\* PUT /:id/stock: `+= quantityChange` for add, `- quantityChange` for subtract.
StockChange(operation, quantityChange) ==
  IF operation = "add" THEN quantityChange ELSE 0 - quantityChange

\* An employee lookup that finds a user for every id.
EmployeeMissingNever(employeeId) == FALSE

\* `User.findById(employeeId)` gives null (direct issue).
EmployeeMissing(employeeId) == employeeId \notin Users

\* A manager return that releases nothing.
ManagerReleaseNothing(handover) == 0

\* `product.stock.quantity += handover.quantity` (manager return).
ManagerRelease(handover) == handover.quantity

\* A permission check that passes every authenticated user.
checkPermissionAny(actor, permission) == TRUE

\* middleware checkPermission(permission)
checkPermission(actor, permission) == Permissions(RoleOf(actor))[permission]

\* The User collection is empty and no user route has answered.
NoUsers ==
  /\ accounts = [a \in AccountIds |-> NoDoc]
  /\ enrolled = 0
  /\ reply = NoReply

\* The Product collection holds no numbered product, the counter document does not
\* exist and no creation or deletion is in flight.
NoCatalog ==
  /\ catalog = [h \in Handles |-> NoDoc]
  /\ seq = 0
  /\ listed = 0
  /\ jobs = [s \in Slots |-> Idle]
  /\ held = [h \in Handles |-> {}]

\* ------------------------------------------------------------------ Init
Init ==
  /\ \E n \in 0..MaxStock :
       /\ products = [p \in ProductIds |-> IF p = "p1" THEN [quantity |-> n] ELSE NoDoc]
       /\ baseline = [p \in ProductIds |-> IF p = "p1" THEN n ELSE 0]
       /\ ledger = [p \in ProductIds |-> IF p = "p1" THEN n ELSE 0]
  /\ handovers = [h \in HandoverIds |-> NoDoc]
  /\ created = 0
  /\ reqs = [s \in Slots |-> Blank]
  /\ ops = 0
  /\ committed = [h \in HandoverIds |-> 0]
  /\ released = [h \in HandoverIds |-> 0]
  /\ returnedSum = [h \in HandoverIds |-> 0]
  /\ NoUsers /\ NoCatalog
  /\ lastRestocked = [p \in ProductIds |-> "earlier"]

\* ------------------------------------------- POST /api/handovers (direct issue)
IssueFind(s, lim, budget, actor, productId, employeeId, handedOverBy, quantity) ==
  /\ CanStart(s, lim, budget)
  /\ created + Inserting < MaxHandovers
  /\ LET rq == [Blank EXCEPT !.op = "issue", !.actor = actor, !.pid = productId,
                             !.emp = employeeId, !.qty = quantity,
                             !.by = IF handedOverBy # NoUser THEN handedOverBy ELSE actor]
         product == products[productId]
     IN  Launch(s,
           IF ~checkPermission(actor, "canManageProducts") THEN Deny(rq)
           ELSE IF quantity < 1 THEN Refuse(rq, "invalid")
           ELSE IF product = NoDoc THEN Missing(rq)
           ELSE IF InsufficientStock(product.quantity, quantity) THEN Answer(rq, "insufficient")
           ELSE IF EmployeeMissing(employeeId) THEN Missing(rq)
           ELSE [rq EXCEPT !.pc = "issue_h", !.lq = product.quantity])
  /\ UNCHANGED <<store, history>>

IssueSaveHandover(s) ==
  /\ reqs[s].pc = "issue_h"
  /\ LET rq == reqs[s]
         id == created + 1
     IN  /\ handovers' = [handovers EXCEPT ![id] =
                            NewHandOver(rq.pid, rq.emp, rq.by, rq.qty, "handed_over")]
         /\ created' = id
         /\ Step(s, [rq EXCEPT !.pc = "issue_p", !.hid = id, !.doc = handovers'[id]])
  /\ UNCHANGED <<products, history>>

IssueSaveProduct(s) ==
  /\ reqs[s].pc = "issue_p"
  /\ LET rq == reqs[s]
         w == WriteProduct(s, 0 - rq.qty)
     IN  IF w.ok
         THEN /\ products' = [products EXCEPT ![rq.pid] = w.doc]
              /\ ledger' = [ledger EXCEPT ![rq.pid] = @ - rq.qty]
              /\ committed' = [committed EXCEPT ![rq.hid] = @ + rq.qty]
              /\ Saved(s, Answer([rq EXCEPT !.amt = 0 - rq.qty], "ok"), 0 - rq.qty)
         ELSE /\ UNCHANGED <<products, ledger, committed>>
              /\ Step(s, Answer(rq, "error"))
  /\ UNCHANGED <<handovers, created, baseline, released, returnedSum>>

\* ------------------------------------ POST /api/handovers/request (employee)
RequestFind(s, lim, budget, actor, productId, quantity) ==
  /\ CanStart(s, lim, budget)
  /\ created + Inserting < MaxHandovers
  /\ LET rq == [Blank EXCEPT !.op = "request", !.actor = actor, !.pid = productId,
                             !.qty = quantity]
     IN  Launch(s,
           IF ~checkPermission(actor, "canRequestHandover") THEN Deny(rq)
           ELSE IF quantity < 1 THEN Refuse(rq, "invalid")
           ELSE IF products[productId] = NoDoc THEN Missing(rq)
           ELSE [rq EXCEPT !.pc = "request_h"])
  /\ UNCHANGED <<store, history>>

RequestSaveHandover(s) ==
  /\ reqs[s].pc = "request_h"
  /\ LET rq == reqs[s]
         id == created + 1
     IN  /\ handovers' = [handovers EXCEPT ![id] =
                            RequestedHandOver(rq.pid, rq.actor, rq.qty)]
         /\ created' = id
         /\ Step(s, Answer([rq EXCEPT !.hid = id, !.doc = handovers'[id]], "ok"))
  /\ UNCHANGED <<products, history>>

\* --------------------------------------------- POST /api/handovers/:id/approve
ApproveFind(s, lim, budget, actor, id) ==
  /\ CanStart(s, lim, budget)
  /\ LET rq == [Blank EXCEPT !.op = "approve", !.actor = actor, !.hid = id]
         handover == handovers[id]
         product == products[handover.product]     \* populate('product')
         got == [rq EXCEPT !.doc = handover, !.pid = handover.product,
                           !.lq = QuantityOf(product)]
     IN  Launch(s,
           IF ~checkPermission(actor, "canManageProducts") THEN Deny(rq)
           ELSE IF handover = NoDoc THEN Refuse(rq, "notfound")
           ELSE IF NotPending(handover) THEN Answer(got, "notpending")
           ELSE IF product = NoDoc THEN Answer(got, "error")
           ELSE IF InsufficientStock(product.quantity, handover.quantity)
                THEN Answer(got, "insufficient")
           ELSE [got EXCEPT !.pc = "approve_h"])
  /\ UNCHANGED <<store, history>>

ApproveSaveHandover(s) ==
  /\ reqs[s].pc = "approve_h"
  /\ LET rq == reqs[s]
         stored == handovers[rq.hid]
         local == ApprovedHandOver(rq.doc, rq.actor)
     IN  IF stored = NoDoc
         THEN /\ UNCHANGED handovers
              /\ Step(s, Answer(rq, "error"))
         ELSE /\ handovers' = [handovers EXCEPT ![rq.hid] = SaveHandOver(stored, rq.doc, local)]
              /\ Step(s, [rq EXCEPT !.pc = "approve_p"])
  /\ UNCHANGED <<products, created, history>>

ApproveSaveProduct(s) ==
  /\ reqs[s].pc = "approve_p"
  /\ LET rq == reqs[s]
         q == rq.doc.quantity
         w == WriteProduct(s, 0 - q)
     IN  IF w.ok
         THEN /\ products' = [products EXCEPT ![rq.pid] = w.doc]
              /\ ledger' = [ledger EXCEPT ![rq.pid] = @ - q]
              /\ committed' = [committed EXCEPT ![rq.hid] = @ + q]
              /\ Saved(s, Answer([rq EXCEPT !.amt = 0 - q], "ok"), 0 - q)
         ELSE /\ UNCHANGED <<products, ledger, committed>>
              /\ Step(s, Answer(rq, "error"))
  /\ UNCHANGED <<handovers, created, baseline, released, returnedSum>>

\* ---------------------------------------------- POST /api/handovers/:id/reject
RejectFind(s, lim, budget, actor, id, rejectionReason) ==
  /\ CanStart(s, lim, budget)
  /\ LET rq == [Blank EXCEPT !.op = "reject", !.actor = actor, !.hid = id,
                             !.arg = rejectionReason]
         handover == handovers[id]
         got == [rq EXCEPT !.doc = handover, !.pid = handover.product]
     IN  Launch(s,
           IF ~checkPermission(actor, "canManageProducts") THEN Deny(rq)
           ELSE IF rejectionReason = "" THEN Refuse(rq, "invalid")
           ELSE IF handover = NoDoc THEN Refuse(rq, "notfound")
           ELSE IF NotPending(handover) THEN Answer(got, "notpending")
           ELSE [got EXCEPT !.pc = "reject_h"])
  /\ UNCHANGED <<store, history>>

RejectSaveHandover(s) ==
  /\ reqs[s].pc = "reject_h"
  /\ LET rq == reqs[s]
         stored == handovers[rq.hid]
         local == RejectedHandOver(rq.doc, rq.actor, rq.arg)
     IN  IF stored = NoDoc
         THEN /\ UNCHANGED handovers
              /\ Step(s, Answer(rq, "error"))
         ELSE /\ handovers' = [handovers EXCEPT ![rq.hid] = SaveHandOver(stored, rq.doc, local)]
              /\ Step(s, Answer(rq, "ok"))
  /\ UNCHANGED <<products, created, history>>

\* ------------------------------- PUT /api/handovers/:id/return (manager return)
MReturnFind(s, lim, budget, actor, id) ==
  /\ CanStart(s, lim, budget)
  /\ LET rq == [Blank EXCEPT !.op = "mreturn", !.actor = actor, !.hid = id]
         handover == handovers[id]
         product == products[handover.product]     \* populate('product')
         got == [rq EXCEPT !.doc = handover, !.pid = handover.product,
                           !.lq = QuantityOf(product)]
     IN  Launch(s,
           IF ~checkPermission(actor, "canManageProducts") THEN Deny(rq)
           ELSE IF handover = NoDoc THEN Refuse(rq, "notfound")
           ELSE IF handover.status = "returned" THEN Answer(got, "already")
           ELSE [got EXCEPT !.pc = "mreturn_h"])
  /\ UNCHANGED <<store, history>>

\* handover.save(), then `handover.product._id`, which throws on a null product.
MReturnSaveHandover(s) ==
  /\ reqs[s].pc = "mreturn_h"
  /\ LET rq == reqs[s]
         stored == handovers[rq.hid]
         local == [rq.doc EXCEPT !.status = "returned", !.returnedBy = rq.actor]
     IN  IF stored = NoDoc
         THEN /\ UNCHANGED handovers
              /\ Step(s, Answer(rq, "error"))
         ELSE /\ handovers' = [handovers EXCEPT ![rq.hid] = SaveHandOver(stored, rq.doc, local)]
              /\ Step(s, IF rq.lq = NoQty THEN Answer(rq, "error")
                         ELSE [rq EXCEPT !.pc = "mreturn_f"])
  /\ UNCHANGED <<products, created, history>>

MReturnFindProduct(s) ==
  /\ reqs[s].pc = "mreturn_f"
  /\ LET rq == reqs[s]
         product == products[rq.pid]
     IN  Step(s, IF product = NoDoc THEN Answer(rq, "ok")
                 ELSE [rq EXCEPT !.pc = "mreturn_p", !.lq = product.quantity])
  /\ UNCHANGED <<store, history>>

MReturnSaveProduct(s) ==
  /\ reqs[s].pc = "mreturn_p"
  /\ LET rq == reqs[s]
         q == ManagerRelease(rq.doc)
         w == WriteProduct(s, q)
     IN  IF w.ok
         THEN /\ products' = [products EXCEPT ![rq.pid] = w.doc]
              /\ ledger' = [ledger EXCEPT ![rq.pid] = @ + q]
              /\ released' = [released EXCEPT ![rq.hid] = @ + q]
              /\ Saved(s, Answer([rq EXCEPT !.amt = q], "ok"), q)
         ELSE /\ UNCHANGED <<products, ledger, released>>
              /\ Step(s, Answer(rq, "error"))
  /\ UNCHANGED <<handovers, created, baseline, committed, returnedSum>>

\* ----------------------------- POST /api/handovers/:id/return (employee return)
EReturnFind(s, lim, budget, actor, id, returnQuantity) ==
  /\ CanStart(s, lim, budget)
  /\ LET rq == [Blank EXCEPT !.op = "ereturn", !.actor = actor, !.hid = id,
                             !.qty = returnQuantity]
         handover == handovers[id]
         got == [rq EXCEPT !.doc = handover, !.pid = handover.product]
     IN  Launch(s,
           IF ~checkPermission(actor, "canReturnHandover") THEN Deny(rq)
           ELSE IF returnQuantity < 1 THEN Refuse(rq, "invalid")
           ELSE IF handover = NoDoc THEN Refuse(rq, "notfound")
           ELSE IF NotOwner(handover, actor) THEN AnswerTo(got, "forbidden")
           ELSE IF handover.status # "handed_over" THEN AnswerTo(got, "notactive")
           ELSE IF returnQuantity > handover.quantity THEN AnswerTo(got, "exceeds")
           ELSE [got EXCEPT !.pc = "ereturn_h"])
  /\ UNCHANGED <<store, history>>

\* The local document gets returnedQuantity, returnedBy and, when the local
\* returnedQuantity reaches quantity, status; then handover.save().
EReturnSaveHandover(s) ==
  /\ reqs[s].pc = "ereturn_h"
  /\ LET rq == reqs[s]
         stored == handovers[rq.hid]
         returnedQuantity == ReturnedQuantity(rq.doc) + rq.qty
         local == [rq.doc EXCEPT !.returnedBy = rq.actor,
                                 !.status = IF returnedQuantity >= rq.doc.quantity
                                            THEN "returned" ELSE @]
     IN  IF stored = NoDoc
         THEN /\ UNCHANGED <<handovers, returnedSum>>
              /\ Step(s, Answer(rq, "error"))
         ELSE /\ handovers' = [handovers EXCEPT ![rq.hid] = SaveHandOver(stored, rq.doc, local)]
              /\ returnedSum' = [returnedSum EXCEPT ![rq.hid] = @ + rq.qty]
              /\ Step(s, [rq EXCEPT !.pc = "ereturn_f"])
  /\ UNCHANGED <<products, created, baseline, ledger, committed, released>>

EReturnFindProduct(s) ==
  /\ reqs[s].pc = "ereturn_f"
  /\ LET rq == reqs[s]
         product == products[rq.pid]
     IN  Step(s, IF product = NoDoc THEN Answer(rq, "ok")
                 ELSE [rq EXCEPT !.pc = "ereturn_p", !.lq = product.quantity])
  /\ UNCHANGED <<store, history>>

EReturnSaveProduct(s) ==
  /\ reqs[s].pc = "ereturn_p"
  /\ LET rq == reqs[s]
         w == WriteProduct(s, rq.qty)
     IN  IF w.ok
         THEN /\ products' = [products EXCEPT ![rq.pid] = w.doc]
              /\ ledger' = [ledger EXCEPT ![rq.pid] = @ + rq.qty]
              /\ released' = [released EXCEPT ![rq.hid] = @ + rq.qty]
              /\ Saved(s, Answer([rq EXCEPT !.amt = rq.qty], "ok"), rq.qty)
         ELSE /\ UNCHANGED <<products, ledger, released>>
              /\ Step(s, Answer(rq, "error"))
  /\ UNCHANGED <<handovers, created, baseline, committed, returnedSum>>

\* --------------------------------------------------- DELETE /api/handovers/:id
DeleteFind(s, lim, budget, actor, id) ==
  /\ CanStart(s, lim, budget)
  /\ LET rq == [Blank EXCEPT !.op = "delete", !.actor = actor, !.hid = id]
         handover == handovers[id]
         product == products[handover.product]     \* populate('product')
         got == [rq EXCEPT !.doc = handover, !.pid = handover.product,
                           !.lq = QuantityOf(product)]
     IN  Launch(s,
           IF ~checkPermission(actor, "canManageProducts") THEN Deny(rq)
           ELSE IF handover = NoDoc THEN Refuse(rq, "notfound")
           ELSE IF RestoresStock(handover, product) THEN [got EXCEPT !.pc = "delete_p"]
           ELSE [got EXCEPT !.pc = "delete_r"])
  /\ UNCHANGED <<store, history>>

DeleteSaveProduct(s) ==
  /\ reqs[s].pc = "delete_p"
  /\ LET rq == reqs[s]
         q == rq.doc.quantity
         w == WriteProduct(s, q)
     IN  IF w.ok
         THEN /\ products' = [products EXCEPT ![rq.pid] = w.doc]
              /\ ledger' = [ledger EXCEPT ![rq.pid] = @ + q]
              /\ released' = [released EXCEPT ![rq.hid] = @ + q]
              /\ Saved(s, [rq EXCEPT !.pc = "delete_r", !.amt = q], q)
         ELSE /\ UNCHANGED <<products, ledger, released>>
              /\ Step(s, Answer(rq, "error"))
  /\ UNCHANGED <<handovers, created, baseline, committed, returnedSum>>

\* HandOver.findByIdAndDelete(handoverId)
DeleteRemove(s) ==
  /\ reqs[s].pc = "delete_r"
  /\ handovers' = [handovers EXCEPT ![reqs[s].hid] = NoDoc]
  /\ Step(s, Answer(reqs[s], "ok"))
  /\ UNCHANGED <<products, created, history>>

\* ----------------------------------------------- PUT /api/products/:id/stock
StockFind(s, lim, budget, actor, productId, operation, quantity) ==
  /\ CanStart(s, lim, budget)
  /\ LET rq == [Blank EXCEPT !.op = "stock", !.actor = actor, !.pid = productId,
                             !.arg = operation, !.qty = quantity]
         product == products[productId]
     IN  Launch(s,
           IF ~checkPermission(actor, "canManageProducts") THEN Deny(rq)
           ELSE IF operation \notin {"add", "subtract"} THEN Refuse(rq, "invalid")
           ELSE IF quantity <= 0 THEN Refuse(rq, "invalid")
           ELSE IF product = NoDoc THEN Refuse(rq, "notfound")
           ELSE IF operation = "subtract" /\ product.quantity - quantity < 0
                THEN Answer([rq EXCEPT !.lq = product.quantity], "insufficient")
           ELSE [rq EXCEPT !.pc = "stock_p", !.lq = product.quantity])
  /\ UNCHANGED <<store, history>>

StockSaveProduct(s) ==
  /\ reqs[s].pc = "stock_p"
  /\ LET rq == reqs[s]
         delta == StockChange(rq.arg, rq.qty)
         w == WriteProduct(s, delta)
     IN  IF w.ok
         THEN /\ products' = [products EXCEPT ![rq.pid] = w.doc]
              /\ ledger' = [ledger EXCEPT ![rq.pid] = @ + delta]
              /\ baseline' = [baseline EXCEPT ![rq.pid] = @ + delta]
              /\ Saved(s, Answer([rq EXCEPT !.amt = delta], "ok"), delta)
         ELSE /\ UNCHANGED <<products, ledger, baseline>>
              /\ Step(s, Answer(rq, "error"))
  /\ UNCHANGED <<handovers, created, committed, released, returnedSum>>

\* ----------------------------------------------------- PUT /api/products/:id
\* `parseInt(req.body.stockQuantity) || product.stock.quantity`
UpdatedQuantity(stockQuantity, current) == IF stockQuantity # 0 THEN stockQuantity ELSE current

UpdateFind(s, lim, budget, actor, productId, stockQuantity) ==
  /\ CanStart(s, lim, budget)
  /\ LET rq == [Blank EXCEPT !.op = "update", !.actor = actor, !.pid = productId,
                             !.qty = stockQuantity]
         product == products[productId]
     IN  Launch(s,
           IF ~checkPermission(actor, "canEditProducts") THEN Deny(rq)
           ELSE IF stockQuantity < 0 THEN Refuse(rq, "invalid")
           ELSE IF product = NoDoc THEN Refuse(rq, "notfound")
           ELSE [rq EXCEPT !.pc = "update_w", !.lq = product.quantity])
  /\ UNCHANGED <<store, history>>

\* Product.findByIdAndUpdate(id, updateData, {new, runValidators}): null when the
\* document is gone, and the handler answers 200 either way.
UpdateWrite(s) ==
  /\ reqs[s].pc = "update_w"
  /\ LET rq == reqs[s]
         n == UpdatedQuantity(rq.qty, rq.lq)
     IN  IF products[rq.pid] = NoDoc
         THEN /\ UNCHANGED <<products, ledger, baseline>>
              /\ Step(s, Answer(rq, "ok"))
         ELSE /\ products' = [products EXCEPT ![rq.pid] = [@ EXCEPT !.quantity = n]]
              /\ ledger' = [ledger EXCEPT ![rq.pid] = IF rq.qty # 0 THEN n ELSE @]
              /\ baseline' = [baseline EXCEPT ![rq.pid] =
                                n + SumHandedOver(rq.pid, HandoverIds)]
              /\ Step(s, Answer([rq EXCEPT !.amt = n - rq.lq], "ok"))
  /\ UNCHANGED <<handovers, created, committed, released, returnedSum>>

\* --------------------------------------------------- DELETE /api/products/:id
\* Product.findByIdAndDelete(id); the renumbering that follows touches productId only.
DeleteProduct(s, lim, budget, actor, productId) ==
  /\ CanStart(s, lim, budget)
  /\ LET rq == [Blank EXCEPT !.op = "delproduct", !.actor = actor, !.pid = productId]
         allowed == checkPermission(actor, "canDeleteProducts")
     IN  /\ Launch(s,
              IF ~allowed THEN Deny(rq)
              ELSE IF products[productId] = NoDoc THEN Refuse(rq, "notfound")
              ELSE Answer(rq, "ok"))
         /\ products' = [products EXCEPT ![productId] = IF allowed THEN NoDoc ELSE @]
  /\ UNCHANGED <<handovers, created, history>>

\* ----------------------------------------------------------- process crash
\* The server process dies: every request in flight is lost, the store stays.
Crash ==
  /\ \E s \in Slots : InFlight(s)
  /\ reqs' = [s \in Slots |-> IF InFlight(s) THEN Blank ELSE reqs[s]]
  /\ UNCHANGED <<store, ops, history, users, sequence, lastRestocked>>

\* ------------------------------------------------------------ user accounts
FAILSAFE_EMAIL == "f"
Emails == {"f", "x", "y"}              \* addresses as stored (lowercase)
BodyEmails == Emails \cup {"F"}        \* "F": the failsafe address written in capitals
Roles == {"admin", "manager", "employee"}
Passwords == {"pw1", "pw2"}
FirstPassword == "pw1"                 \* the password every user is created with
Absent == "-"                          \* an optional body field left out

\* Everything outside the User collection.
rest == <<store, reqs, ops, history, sequence, lastRestocked>>

\* normalizeEmail() of the validators, `lowercase: true` of the schema (also applied
\* when a query is cast).
NormalizeEmail(email) == IF email = "F" THEN "f" ELSE email

FailsafePermissions ==
  [canViewProducts    |-> TRUE,
   canAddProducts     |-> TRUE,
   canEditProducts    |-> TRUE,
   canDeleteProducts  |-> TRUE,
   canManageProducts  |-> TRUE,
   canManageUsers     |-> TRUE,
   canRequestHandover |-> FALSE,
   canReturnHandover  |-> FALSE]

\* userSchema.pre('save'): runs in every user.save().
PreSave(user) ==
  IF user.email = FAILSAFE_EMAIL
    THEN [user EXCEPT !.isActive = TRUE, !.role = "admin", !.permissions = FailsafePermissions]
    ELSE [user EXCEPT !.permissions = Permissions(user.role)]

\* new User({email, password, role, permissions: {...by role...}}); isActive defaults to true.
NewUser(email, password, role) ==
  [email |-> NormalizeEmail(email), password |-> password, role |-> role, isActive |-> TRUE,
   permissions |-> Permissions(role)]

\* User.findOne({ email }): the ids of the documents with that address (at most one).
FindOne(email) ==
  {a \in AccountIds : accounts[a] # NoDoc /\ accounts[a].email = NormalizeEmail(email)}

IsFailsafeNever(user) == FALSE

\* user.email === FAILSAFE_EMAIL, the guard of the routes that change or remove a user.
IsFailsafe(user) == user.email = FAILSAFE_EMAIL

authAnyStored(actor) == accounts[actor] # NoDoc

\* The auth middleware: the token names a stored, active user.
auth(actor) == accounts[actor] # NoDoc /\ accounts[actor].isActive

checkRole(actor, roles) == accounts[actor].role \in roles

\* The answer of the middleware chain auth, checkRole('admin'); 0: the handler runs.
AdminGate(actor) ==
  IF ~auth(actor) THEN 401 ELSE IF ~checkRole(actor, {"admin"}) THEN 403 ELSE 0

Said(op, id, status) == reply' = [op |-> op, id |-> id, status |-> status]

Refused(op, id, status) == Said(op, id, status) /\ UNCHANGED <<accounts, enrolled>>

\* user.save() of a new document.
Insert(op, user, status) ==
  /\ enrolled < MaxAccounts
  /\ accounts' = [accounts EXCEPT ![enrolled + 1] = PreSave(user)]
  /\ enrolled' = enrolled + 1
  /\ Said(op, enrolled + 1, status)

\* user.save() of a loaded document.
Save(op, id, user, status) ==
  /\ accounts' = [accounts EXCEPT ![id] = PreSave(user)]
  /\ Said(op, id, status)
  /\ UNCHANGED enrolled

\* POST /api/auth/register
Register(email, password, role) ==
  /\ IF FindOne(NormalizeEmail(email)) # {}
       THEN Refused("register", 0, 400)
       ELSE Insert("register", NewUser(NormalizeEmail(email), password, role), 201)
  /\ UNCHANGED rest

\* POST /api/auth/login
Login(email, password) ==
  /\ LET found == FindOne(email) IN
       IF found = {} THEN Refused("login", 0, 401)
       ELSE LET id == CHOOSE a \in found : TRUE
                user == accounts[id] IN
              IF ~user.isActive \/ user.password # password
                THEN Refused("login", id, 401)
                ELSE Save("login", id, user, 200)
  /\ UNCHANGED rest

\* PUT /api/auth/profile
Profile(actor) ==
  /\ IF ~auth(actor) THEN Refused("profile", actor, 401)
     ELSE IF IsFailsafe(accounts[actor]) THEN Refused("profile", actor, 403)
     ELSE Save("profile", actor, accounts[actor], 200)
  /\ UNCHANGED rest

\* POST /api/auth/change-password
ChangePassword(actor, currentPassword, newPassword) ==
  /\ IF ~auth(actor) THEN Refused("password", actor, 401)
     ELSE IF IsFailsafe(accounts[actor]) THEN Refused("password", actor, 403)
     ELSE IF accounts[actor].password # currentPassword THEN Refused("password", actor, 400)
     ELSE Save("password", actor, [accounts[actor] EXCEPT !.password = newPassword], 200)
  /\ UNCHANGED rest

\* POST /api/users
CreateUser(actor, email, password, role) ==
  /\ IF AdminGate(actor) # 0 THEN Refused("create", 0, AdminGate(actor))
     ELSE IF NormalizeEmail(email) = FAILSAFE_EMAIL THEN Refused("create", 0, 403)
     ELSE IF FindOne(NormalizeEmail(email)) # {} THEN Refused("create", 0, 400)
     ELSE Insert("create", NewUser(NormalizeEmail(email), password, role), 201)
  /\ UNCHANGED rest

\* The document PUT /api/users/:id saves: the email when it differs, the role and,
\* when the role differs, the permissions of the new role.
Updated(user, email, role) ==
  [user EXCEPT !.email = IF email # Absent /\ email # user.email THEN email ELSE @,
               !.role = IF role # Absent THEN role ELSE @,
               !.permissions = IF role # Absent /\ role # user.role THEN Permissions(role) ELSE @]

\* PUT /api/users/:id
UpdateUser(actor, id, email, role) ==
  /\ LET user == accounts[id]
         e == IF email = Absent THEN Absent ELSE NormalizeEmail(email) IN
       IF AdminGate(actor) # 0 THEN Refused("update", id, AdminGate(actor))
       ELSE IF user = NoDoc THEN Refused("update", id, 404)
       ELSE IF IsFailsafe(user) THEN Refused("update", id, 403)
       ELSE IF e # Absent /\ e # user.email /\ e = FAILSAFE_EMAIL THEN Refused("update", id, 403)
       ELSE IF e # Absent /\ e # user.email /\ FindOne(e) # {} THEN Refused("update", id, 400)
       ELSE Save("update", id, Updated(user, e, role), 200)
  /\ UNCHANGED rest

\* POST /api/users/fix-permissions/:email
FixPermissions(actor, email) ==
  /\ LET found == FindOne(email) IN
       IF AdminGate(actor) # 0 THEN Refused("fix", 0, AdminGate(actor))
       ELSE IF found = {} THEN Refused("fix", 0, 404)
       ELSE LET id == CHOOSE a \in found : TRUE IN
              Save("fix", id, [accounts[id] EXCEPT !.permissions = Permissions(accounts[id].role)], 200)
  /\ UNCHANGED rest

\* DELETE /api/users/:id
DeleteUser(actor, id) ==
  /\ IF AdminGate(actor) # 0 THEN Refused("delete", id, AdminGate(actor))
     ELSE IF accounts[id] = NoDoc THEN Refused("delete", id, 404)
     ELSE IF IsFailsafe(accounts[id]) THEN Refused("delete", id, 403)
     ELSE /\ accounts' = [accounts EXCEPT ![id] = NoDoc]
          /\ Said("delete", id, 200)
          /\ UNCHANGED enrolled
  /\ UNCHANGED rest

\* PUT /api/users/:id/toggle-status
ToggleStatus(actor, id) ==
  /\ IF AdminGate(actor) # 0 THEN Refused("toggle", id, AdminGate(actor))
     ELSE IF accounts[id] = NoDoc THEN Refused("toggle", id, 404)
     ELSE IF IsFailsafe(accounts[id]) THEN Refused("toggle", id, 403)
     ELSE Save("toggle", id, [accounts[id] EXCEPT !.isActive = ~@], 200)
  /\ UNCHANGED rest

\* ------------------------------------------------------- product id sequence
\* Everything outside the id sequence of the Product collection.
others == <<store, reqs, ops, history, users, lastRestocked>>

Live == {h \in Handles : catalog[h] # NoDoc}
JobInFlight(s) == jobs[s].pc \notin {"idle", "done"}
JobsAtRest == \A s \in Slots : ~JobInFlight(s)

\* Slot s is the first free one and fewer than lim creations and deletions are in flight.
JobCanStart(s, lim) ==
  /\ ~JobInFlight(s)
  /\ \A t \in Slots : ~JobInFlight(t) => ~SlotBefore(t, s)
  /\ Cardinality({t \in Slots : JobInFlight(t)}) < lim

\* The unique index on productId: another stored product holds the value.
DuplicateKey(h, productId) ==
  \E g \in Live : g # h /\ catalog[g].productId = productId

\* Product.find().sort({ createdAt: 1 }): the stored products, oldest first, as loaded.
RECURSIVE Sorted(_)
Sorted(hs) ==
  IF hs = {} THEN <<>>
  ELSE LET first == CHOOSE h \in hs : \A g \in hs : h <= g
       IN  <<[h |-> first, productId |-> catalog[first].productId]>> \o Sorted(hs \ {first})

\* The loop of resetProductCounter runs on without an await over the entries that
\* already carry their position: the next index at or after `from` whose loaded
\* productId differs from it (Len(list) + 1: none is left).
RECURSIVE NextToRenumber(_, _)
NextToRenumber(list, from) ==
  IF from > Len(list) THEN from
  ELSE IF list[from].productId # from THEN from
  ELSE NextToRenumber(list, from + 1)

ResetValueOneMore(list) == Len(list) + 1

\* { seq: products.length }
ResetValue(list) == Len(list)

Finished(job, status) == [job EXCEPT !.pc = "done", !.status = status]

\* POST /api/products, up to the first await of product.save(): createdAt is stamped
\* and the pre-save hook takes the next counter value with $inc (upsert).
CreateNumber(s, lim) ==
  /\ JobCanStart(s, lim)
  /\ listed < MaxProducts
  /\ seq' = seq + 1
  /\ listed' = listed + 1
  /\ jobs' = [jobs EXCEPT ![s] = [Idle EXCEPT !.op = "create", !.pc = "insert",
                                             !.h = listed + 1, !.id = seq + 1]]
  /\ UNCHANGED <<catalog, held, others>>

\* POST /api/products: the insert of product.save(); E11000 is answered 400.
CreateInsert(s) ==
  /\ jobs[s].pc = "insert"
  /\ LET job == jobs[s] IN
       IF DuplicateKey(job.h, job.id)
         THEN /\ jobs' = [jobs EXCEPT ![s] = Finished(job, 400)]
              /\ UNCHANGED <<catalog, held>>
         ELSE /\ catalog' = [catalog EXCEPT ![job.h] = [productId |-> job.id]]
              /\ held' = [held EXCEPT ![job.h] = @ \cup {job.id}]
              /\ jobs' = [jobs EXCEPT ![s] = Finished(job, 201)]
  /\ UNCHANGED <<seq, listed, others>>

\* DELETE /api/products/:id: Product.findByIdAndDelete, 404 when nothing was stored.
RemoveProduct(s, lim, h) ==
  /\ JobCanStart(s, lim)
  /\ LET job == [Idle EXCEPT !.op = "delete", !.h = h] IN
       IF catalog[h] = NoDoc
         THEN /\ jobs' = [jobs EXCEPT ![s] = Finished(job, 404)]
              /\ UNCHANGED catalog
         ELSE /\ catalog' = [catalog EXCEPT ![h] = NoDoc]
              /\ jobs' = [jobs EXCEPT ![s] = [job EXCEPT !.pc = "find"]]
  /\ UNCHANGED <<seq, listed, held, others>>

\* resetProductCounter: Product.find().sort({ createdAt: 1 }).
ResetFind(s) ==
  /\ jobs[s].pc = "find"
  /\ LET list == Sorted(Live)
         next == NextToRenumber(list, 1) IN
       jobs' = [jobs EXCEPT ![s] = [@ EXCEPT !.list = list, !.i = next,
                                             !.pc = IF next > Len(list) THEN "count" ELSE "renumber"]]
  /\ UNCHANGED <<catalog, seq, listed, held, others>>

\* resetProductCounter: Product.findByIdAndUpdate(product._id, { productId: newId }) of
\* the entry at position i.  A product deleted meanwhile is left alone (null); a
\* value another product holds raises E11000, which ends the pass with a 500.
ResetRenumber(s) ==
  /\ jobs[s].pc = "renumber"
  /\ LET job == jobs[s]
         h == job.list[job.i].h
         next == NextToRenumber(job.list, job.i + 1)
         onward == [job EXCEPT !.i = next,
                               !.pc = IF next > Len(job.list) THEN "count" ELSE "renumber"] IN
       IF catalog[h] = NoDoc
         THEN /\ jobs' = [jobs EXCEPT ![s] = onward]
              /\ UNCHANGED <<catalog, held>>
       ELSE IF DuplicateKey(h, job.i)
         THEN /\ jobs' = [jobs EXCEPT ![s] = Finished(job, 500)]
              /\ UNCHANGED <<catalog, held>>
       ELSE /\ catalog' = [catalog EXCEPT ![h] = [productId |-> job.i]]
            /\ held' = [held EXCEPT ![h] = @ \cup {job.i}]
            /\ jobs' = [jobs EXCEPT ![s] = onward]
  /\ UNCHANGED <<seq, listed, others>>

\* resetProductCounter: Counter.findByIdAndUpdate('productId', { seq: products.length },
\* { upsert: true }); the deletion is answered 200.
ResetCounter(s) ==
  /\ jobs[s].pc = "count"
  /\ seq' = ResetValue(jobs[s].list)
  /\ jobs' = [jobs EXCEPT ![s] = Finished(@, 200)]
  /\ UNCHANGED <<catalog, listed, held, others>>

\* ------------------------------------------------------------ specifications
Quantities(maxQty) == 0..maxQty

Begin(lim, budget, maxQty, maxStock) ==
  \E s \in Slots, actor \in Users :
    \/ \E p \in ProductIds, e \in {"e1", "e2", UnknownUser}, b \in {NoUser, "a1"}, q \in Quantities(maxQty) :
         IssueFind(s, lim, budget, actor, p, e, b, q)
    \/ \E p \in ProductIds, q \in Quantities(maxQty) : RequestFind(s, lim, budget, actor, p, q)
    \/ \E id \in HandoverIds : ApproveFind(s, lim, budget, actor, id)
    \/ \E id \in HandoverIds, r \in Reasons : RejectFind(s, lim, budget, actor, id, r)
    \/ \E id \in HandoverIds : MReturnFind(s, lim, budget, actor, id)
    \/ \E id \in HandoverIds, q \in Quantities(maxQty) : EReturnFind(s, lim, budget, actor, id, q)
    \/ \E id \in HandoverIds : DeleteFind(s, lim, budget, actor, id)
    \/ \E p \in ProductIds, o \in {"add", "subtract", "set"}, q \in Quantities(maxQty) :
         StockFind(s, lim, budget, actor, p, o, q)
    \/ \E p \in ProductIds, n \in -1..maxStock : UpdateFind(s, lim, budget, actor, p, n)
    \/ \E p \in ProductIds : DeleteProduct(s, lim, budget, actor, p)

Continue ==
  \E s \in Slots :
    \/ IssueSaveHandover(s) \/ IssueSaveProduct(s)
    \/ RequestSaveHandover(s)
    \/ ApproveSaveHandover(s) \/ ApproveSaveProduct(s)
    \/ RejectSaveHandover(s)
    \/ MReturnSaveHandover(s) \/ MReturnFindProduct(s) \/ MReturnSaveProduct(s)
    \/ EReturnSaveHandover(s) \/ EReturnFindProduct(s) \/ EReturnSaveProduct(s)
    \/ DeleteSaveProduct(s) \/ DeleteRemove(s)
    \/ StockSaveProduct(s)
    \/ UpdateWrite(s)

\* One request at a time: a request is accepted only when none is in flight.
Next == Begin(1, MaxOps, MaxQty, MaxStock) \/ Continue
Spec == Init /\ [][Next]_vars

\* Two requests race on a store the sequential program can have built: every slot
\* serves one request, the requests overlap freely, and the process may crash.
\* The store holds p1 and the first k handovers, each pending (as requested by e1)
\* or handed_over (as approved by a1, its quantity deducted).
StoredHandOver(status, quantity) ==
  NewHandOver("p1", "e1", IF status = "handed_over" THEN "a1" ELSE NoUser, quantity, status)

InitConc ==
  /\ \E n \in 0..MaxRaceStock, k \in {i \in 0..MaxHandovers : i <= Cardinality(Slots)} :
       \E st \in [1..k -> {"pending", "handed_over"}], qs \in [1..k -> 1..MaxRaceQty] :
         \* ids are opaque to the program: each pair of stored records is taken in
         \* one order only (larger quantity first, then pending before handed_over)
         /\ \A i, j \in 1..k :
              i < j => \/ qs[i] > qs[j]
                       \/ qs[i] = qs[j] /\ (st[i] = "pending" \/ st[j] = "handed_over")
         /\ products = [p \in ProductIds |-> IF p = "p1" THEN [quantity |-> n] ELSE NoDoc]
         /\ handovers = [h \in HandoverIds |->
                           IF h <= k THEN StoredHandOver(st[h], qs[h]) ELSE NoDoc]
         /\ created = k
         /\ committed = [h \in HandoverIds |->
                           IF h <= k /\ st[h] = "handed_over" THEN qs[h] ELSE 0]
         /\ ledger = [p \in ProductIds |-> IF p = "p1" THEN n ELSE 0]
         /\ baseline = [p \in ProductIds |->
                          IF p = "p1" THEN n + SumHandedOver("p1", HandoverIds) ELSE 0]
  /\ reqs = [s \in Slots |-> Blank]
  /\ ops = 0
  /\ released = [h \in HandoverIds |-> 0]
  /\ returnedSum = [h \in HandoverIds |-> 0]
  /\ NoUsers /\ NoCatalog
  /\ lastRestocked = [p \in ProductIds |-> "earlier"]

NextConc ==
  Begin(Cardinality(Slots), Cardinality(Slots), MaxRaceQty, MaxRaceStock) \/ Continue \/ Crash
SpecConc == InitConc /\ [][NextConc]_vars

\* One request at a time on a store that already holds records of every status, as
\* the sequential program leaves them: pending as requested by e1, handed_over as
\* approved by a1 (quantity deducted), returned as taken back by a1 (quantity
\* deducted and released), rejected by a1 with a reason.
SettledHandOver(status, quantity) ==
  [StoredHandOver(IF status = "returned" THEN "handed_over" ELSE status, quantity)
     EXCEPT !.status = status,
            !.returnedBy = IF status = "returned" THEN "a1" ELSE @,
            !.rejectedBy = IF status = "rejected" THEN "a1" ELSE @,
            !.rejectionReason = IF status = "rejected" THEN "out of budget" ELSE @]

InitSeq ==
  /\ \E n \in 0..MaxRaceStock, k \in {i \in 0..MaxHandovers : i <= Cardinality(Slots)} :
       \E st \in [1..k -> {"pending", "handed_over", "returned", "rejected"}],
          qs \in [1..k -> 1..MaxRaceQty] :
         /\ products = [p \in ProductIds |-> IF p = "p1" THEN [quantity |-> n] ELSE NoDoc]
         /\ handovers = [h \in HandoverIds |->
                           IF h <= k THEN SettledHandOver(st[h], qs[h]) ELSE NoDoc]
         /\ created = k
         /\ committed = [h \in HandoverIds |->
                           IF h <= k /\ st[h] \in {"handed_over", "returned"} THEN qs[h] ELSE 0]
         /\ released = [h \in HandoverIds |->
                          IF h <= k /\ st[h] = "returned" THEN qs[h] ELSE 0]
         /\ ledger = [p \in ProductIds |-> IF p = "p1" THEN n ELSE 0]
         /\ baseline = [p \in ProductIds |->
                          IF p = "p1" THEN n + SumHandedOver("p1", HandoverIds) ELSE 0]
  /\ reqs = [s \in Slots |-> Blank]
  /\ ops = 0
  /\ returnedSum = [h \in HandoverIds |-> 0]
  /\ NoUsers /\ NoCatalog
  /\ lastRestocked = [p \in ProductIds |-> "earlier"]

NextSeq == Begin(1, MaxSeqOps, MaxRaceQty, MaxRaceStock) \/ Continue
SpecSeq == InitSeq /\ [][NextSeq]_vars

\* Two requests, one after the other, on a store that holds one product and no
\* handover yet.
NextTrip == Begin(1, MaxTripOps, MaxQty, MaxStock) \/ Continue
SpecTrip == Init /\ [][NextTrip]_vars

\* Two requests, one after the other, on a store whose records are all pending
\* requests by e1 for p1: nothing has been committed or released yet.
InitPending ==
  /\ \E n \in 0..MaxRaceStock, k \in {i \in 0..MaxHandovers : i <= Cardinality(Slots)} :
       \E qs \in [1..k -> 1..MaxRaceQty] :
         /\ \A i, j \in 1..k : i < j => qs[i] >= qs[j]
         /\ products = [p \in ProductIds |-> IF p = "p1" THEN [quantity |-> n] ELSE NoDoc]
         /\ handovers = [h \in HandoverIds |->
                           IF h <= k THEN StoredHandOver("pending", qs[h]) ELSE NoDoc]
         /\ created = k
         /\ ledger = [p \in ProductIds |-> IF p = "p1" THEN n ELSE 0]
         /\ baseline = [p \in ProductIds |-> IF p = "p1" THEN n ELSE 0]
  /\ reqs = [s \in Slots |-> Blank]
  /\ ops = 0
  /\ committed = [h \in HandoverIds |-> 0]
  /\ released = [h \in HandoverIds |-> 0]
  /\ returnedSum = [h \in HandoverIds |-> 0]
  /\ NoUsers /\ NoCatalog
  /\ lastRestocked = [p \in ProductIds |-> "earlier"]

NextPending == Begin(1, MaxTripOps, MaxRaceQty, MaxRaceStock) \/ Continue
SpecPending == InitPending /\ [][NextPending]_vars

\* The user and auth routes, one request at a time, from an empty User collection.
\* A token exists only for a user that was created.
\* The requests user `actor` sends with its token, with addresses and roles drawn
\* from the given sets.
UserRequests(actor, emails, roles) ==
  \/ Profile(actor)
  \/ \E currentPassword, newPassword \in Passwords :
       ChangePassword(actor, currentPassword, newPassword)
  \/ \E email \in emails, role \in roles : CreateUser(actor, email, FirstPassword, role)
  \/ \E id \in AccountIds, email \in emails \cup {Absent}, role \in roles \cup {Absent} :
       UpdateUser(actor, id, email, role)
  \/ \E email \in emails : FixPermissions(actor, email)
  \/ \E id \in AccountIds : DeleteUser(actor, id)
  \/ \E id \in AccountIds : ToggleStatus(actor, id)

\* Registrations and logins need no token.
PublicRequests(emails, roles) ==
  \/ \E email \in emails, role \in roles : Register(email, FirstPassword, role)
  \/ \E email \in emails, password \in Passwords : Login(email, password)

NextUsers ==
  \/ PublicRequests(BodyEmails, Roles)
  \/ \E actor \in 1..enrolled : UserRequests(actor, BodyEmails, Roles)
InitUsers == Init /\ products["p1"].quantity = 0
SpecUsers == InitUsers /\ [][NextUsers]_vars

\* The same routes among ordinary accounts: no request names the failsafe address
\* (the failsafe account can be neither deactivated nor deleted).
OrdinaryEmails == Emails \ {FAILSAFE_EMAIL}
NextTokens ==
  \/ PublicRequests(OrdinaryEmails, Roles)
  \/ \E actor \in 1..enrolled : UserRequests(actor, OrdinaryEmails, Roles)
SpecTokens == InitUsers /\ [][NextTokens]_vars


\* Product creations and deletions from an empty collection, one request at a time.
BeginJob(lim) == \E s \in Slots : CreateNumber(s, lim) \/ \E h \in Handles : RemoveProduct(s, lim, h)
ContinueJob == \E s \in Slots : CreateInsert(s) \/ ResetFind(s) \/ ResetRenumber(s) \/ ResetCounter(s)
NextCatalog == BeginJob(1) \/ ContinueJob
SpecCatalog == InitUsers /\ [][NextCatalog]_vars

\* The same requests, with up to two of them in flight at once.
NextShelf == BeginJob(Cardinality(Slots)) \/ ContinueJob
SpecShelf == InitUsers /\ [][NextShelf]_vars

\* ------------------------------------------------------------------ claims
Statuses == {"pending", "handed_over", "returned", "rejected"}
Done(s, op) == reqs[s].pc = "done" /\ reqs[s].op = op
Min(a, b) == IF a <= b THEN a ELSE b
Max(a, b) == IF a >= b THEN a ELSE b

\* C1: in every reachable state, whatever requests ran and however they overlapped,
\* every stored product has stock.quantity >= 0.
NonNegativeStock ==
  \A p \in ProductIds : products[p] # NoDoc => products[p].quantity >= 0

\* C1 witness: two overlapping requests have both deducted stock and the product is
\* left with exactly 0.
StockDrivenToZero ==
  /\ products["p1"] # NoDoc /\ products["p1"].quantity = 0
  /\ \A s \in Slots : /\ reqs[s].pc = "done" /\ reqs[s].over
                      /\ reqs[s].op \in {"issue", "approve"} /\ reqs[s].amt < 0

\* C2: when no request is in flight, for every product the quantities of its
\* handed_over records plus its stock.quantity equal the stock as set from outside
\* and adjusted by the direct add/subtract operations.
StockConservation ==
  Quiescent =>
    \A p \in ProductIds :
      products[p] # NoDoc =>
        SumHandedOver(p, HandoverIds) + products[p].quantity = baseline[p]

\* C3: a stored status is one of the four, a record is created pending or
\* handed_over, and a status changes only pending -> handed_over, pending -> rejected
\* or handed_over -> returned.
StatusFollowsTable ==
  [][\A h \in HandoverIds :
       LET a == handovers[h]
           b == handovers'[h]
       IN  b # NoDoc =>
             /\ b.status \in Statuses
             /\ a = NoDoc => b.status \in {"pending", "handed_over"}
             /\ (a # NoDoc /\ a.status # b.status) =>
                  <<a.status, b.status>> \in {<<"pending", "handed_over">>,
                                              <<"pending", "rejected">>,
                                              <<"handed_over", "returned">>}]_vars

\* C4: two overlapping approve calls on two different pending requests for one
\* product whose stock, when they were made, equalled one request's quantity: exactly
\* one is answered ok, the other insufficient with its record still pending, and the
\* stock is not negative.
ApproveRaceOneWins ==
  \A s, t \in Slots :
    ( /\ s # t /\ Done(s, "approve") /\ Done(t, "approve")
      /\ reqs[s].over /\ reqs[t].over
      /\ reqs[s].hid # reqs[t].hid /\ reqs[s].pid = reqs[t].pid
      /\ reqs[s].outcome \in {"ok", "insufficient"}
      /\ reqs[t].outcome \in {"ok", "insufficient"}
      /\ Max(reqs[s].lq, reqs[t].lq) \in {reqs[s].doc.quantity, reqs[t].doc.quantity} )
    => /\ reqs[s].outcome # reqs[t].outcome
       /\ Stock(reqs[s].pid) >= 0
       /\ \A u \in {s, t} :
            reqs[u].outcome = "insufficient" => handovers[reqs[u].hid].status = "pending"

\* C5: an answered manager return is ok only if the record it loaded was
\* handed_over; on a pending or rejected record it is an error and writes no stock.
ManagerReturnNeedsHandedOver ==
  \A s \in Slots :
    (Done(s, "mreturn") /\ reqs[s].doc # NoDoc) =>
      /\ reqs[s].outcome = "ok" => reqs[s].doc.status = "handed_over"
      /\ reqs[s].doc.status \in {"pending", "rejected"} =>
           reqs[s].outcome # "ok" /\ reqs[s].amt = 0

\* C6: an employee return is accepted only if returnQuantity fits in what is left of
\* the handover, so the accepted returnQuantity values of one handover, and the stock
\* released for it, sum to at most its quantity.
EmployeeReturnWithinOutstanding ==
  /\ \A s \in Slots :
       reqs[s].pc = "ereturn_h" =>
         reqs[s].qty <= reqs[s].doc.quantity - returnedSum[reqs[s].hid]
  /\ \A h \in HandoverIds :
       handovers[h] # NoDoc => returnedSum[h] <= handovers[h].quantity

\* C7: returnedQuantity accumulates across employee return calls: the value a call
\* starts from is the sum of the returns accepted before it, and the record is
\* returned once the sum of the accepted returns reaches quantity.
ReturnedQuantityAccumulates ==
  /\ \A s \in Slots :
       reqs[s].pc = "ereturn_h" => ReturnedQuantity(reqs[s].doc) = returnedSum[reqs[s].hid]
  /\ \A h \in HandoverIds :
       (handovers[h] # NoDoc /\ returnedSum[h] >= handovers[h].quantity)
         => handovers[h].status = "returned"

\* C8: no update is lost: when no request is in flight, the stock of every product
\* is what the writes made so far give when applied one after the other.
NoLostUpdate ==
  Quiescent =>
    \A p \in ProductIds : products[p] # NoDoc => products[p].quantity = ledger[p]

\* C9: when no request is in flight (also after a crash or a failed write), a
\* handed_over record has had its quantity deducted from stock and a returned record
\* has had its quantity released to the product, if the product is still stored.
StatusAndStockTogether ==
  Quiescent =>
    \A h \in HandoverIds :
      (handovers[h] # NoDoc /\ products[handovers[h].product] # NoDoc) =>
        /\ handovers[h].status = "handed_over" => committed[h] >= handovers[h].quantity
        /\ handovers[h].status = "returned" => released[h] >= handovers[h].quantity

\* C10: two overlapping releasing operations that both loaded the same record as
\* handed_over and both released its full quantity leave the stock raised by that
\* quantity once.
ReleaseAppliedOnce ==
  \A s, t \in Slots :
    ( /\ s # t /\ reqs[s].pc = "done" /\ reqs[t].pc = "done"
      /\ reqs[s].over /\ reqs[t].over
      /\ {reqs[s].op, reqs[t].op} \subseteq {"mreturn", "ereturn", "delete"}
      /\ reqs[s].hid = reqs[t].hid
      /\ reqs[s].doc.status = "handed_over" /\ reqs[t].doc.status = "handed_over"
      /\ reqs[s].amt = reqs[s].doc.quantity /\ reqs[t].amt = reqs[t].doc.quantity )
    => Stock(reqs[s].pid) = Min(reqs[s].lq, reqs[t].lq) + reqs[s].doc.quantity

\* The request that enters slot s in this step.
Launched(s) == ops' = ops + 1 /\ CanStart(s, Cardinality(Slots) + 1, ops + 1)

\* C11: an approve or reject call by a permitted caller on a record that was already
\* approved or rejected (its status is no longer pending) is answered with the
\* not-pending error, and the step changes neither a handover nor a product.
SecondDecisionRefused ==
  [][\A s \in Slots :
       ( /\ Launched(s)
         /\ reqs'[s].op \in {"approve", "reject"}
         /\ reqs'[s].doc # NoDoc
         /\ reqs'[s].doc.status # "pending" )
       => /\ reqs'[s].pc = "done" /\ reqs'[s].outcome = "notpending"
          /\ UNCHANGED <<products, handovers>>]_vars

\* C11 witness: an approve on a record that an earlier approve had handed over has
\* been answered not-pending, and the record is as it was loaded.
SecondApproveRefused ==
  \E s \in Slots :
    /\ Done(s, "approve") /\ reqs[s].outcome = "notpending"
    /\ reqs[s].doc.status = "handed_over" /\ reqs[s].doc.handedOverBy = "a1"
    /\ handovers[reqs[s].hid] = reqs[s].doc

\* C12: returned and rejected are terminal: a stored record in one of them keeps its
\* status until it is deleted, and a request other than a delete that loaded the
\* record in one of them changes no product's stock.
TerminalStatusesStay ==
  [][/\ \A h \in HandoverIds :
          ( /\ handovers[h] # NoDoc /\ handovers'[h] # NoDoc
            /\ handovers[h].status \in {"returned", "rejected"} )
          => handovers'[h].status = handovers[h].status
     /\ \A s \in Slots :
          ( /\ InFlight(s) /\ reqs'[s] # reqs[s]
            /\ reqs[s].op # "delete"
            /\ reqs[s].doc # NoDoc
            /\ reqs[s].doc.status \in {"returned", "rejected"} )
          => products' = products]_vars

\* C13: a direct issue that reaches the stock guard is refused as insufficient exactly
\* when the stock is below the quantity, and then nothing is stored; otherwise it
\* inserts a handed_over record with handedOverBy set and the body's product,
\* employee and quantity, and then lowers that product's stock by the quantity.
DirectIssueCommitsStock ==
  [][\A s \in Slots :
       /\ (Launched(s) /\ reqs'[s].op = "issue" /\ reqs'[s].outcome = "insufficient")
            => /\ Stock(reqs'[s].pid) < reqs'[s].qty
               /\ UNCHANGED <<products, handovers, created>>
       /\ (Launched(s) /\ reqs'[s].pc = "issue_h")
            => /\ Stock(reqs'[s].pid) >= reqs'[s].qty
               /\ UNCHANGED <<products, handovers, created>>
       /\ (reqs[s].pc = "issue_h" /\ reqs'[s] # reqs[s])
            => /\ created' = created + 1
               /\ handovers[created'] = NoDoc
               /\ handovers'[created'].status = "handed_over"
               /\ handovers'[created'].handedOverBy \in Users
               /\ handovers'[created'].product = reqs[s].pid
               /\ handovers'[created'].employee = reqs[s].emp
               /\ handovers'[created'].quantity = reqs[s].qty
               /\ \A h \in HandoverIds \ {created'} : handovers'[h] = handovers[h]
               /\ reqs'[s].pc = "issue_p"
               /\ UNCHANGED products
       /\ (reqs[s].pc = "issue_p" /\ reqs'[s] # reqs[s])
            => /\ reqs'[s].pc = "done" /\ reqs'[s].outcome = "ok"
               /\ Stock(reqs[s].pid)' = Stock(reqs[s].pid) - reqs[s].qty
               /\ \A p \in ProductIds \ {reqs[s].pid} : products'[p] = products[p]
               /\ UNCHANGED handovers]_vars

\* C13 witness: a direct issue of the whole stock has been answered ok; its record is
\* stored handed_over and the stock is the loaded stock less the quantity.
DirectIssueDone ==
  \E s \in Slots :
    /\ Done(s, "issue") /\ reqs[s].outcome = "ok" /\ reqs[s].qty = reqs[s].lq
    /\ handovers[reqs[s].hid].status = "handed_over"
    /\ Stock(reqs[s].pid) = reqs[s].lq - reqs[s].qty

\* C14: an approve of a pending request is refused as insufficient exactly when the
\* stock is below the request's quantity, and then nothing is stored; otherwise it
\* stores the record as handed_over with handedOverBy the approver, and then lowers
\* the product's stock by the request's quantity.
ApproveCommitsStock ==
  [][\A s \in Slots :
       /\ (Launched(s) /\ reqs'[s].op = "approve" /\ reqs'[s].outcome = "insufficient")
            => /\ reqs'[s].doc.status = "pending"
               /\ Stock(reqs'[s].pid) < reqs'[s].doc.quantity
               /\ handovers'[reqs'[s].hid].status = "pending"
               /\ UNCHANGED <<products, handovers>>
       /\ (Launched(s) /\ reqs'[s].pc = "approve_h")
            => /\ reqs'[s].doc.status = "pending"
               /\ Stock(reqs'[s].pid) >= reqs'[s].doc.quantity
               /\ UNCHANGED <<products, handovers>>
       /\ (reqs[s].pc = "approve_h" /\ reqs'[s] # reqs[s])
            => /\ handovers' = [handovers EXCEPT ![reqs[s].hid] =
                                  [@ EXCEPT !.status = "handed_over",
                                            !.handedOverBy = reqs[s].actor]]
               /\ reqs'[s].pc = "approve_p"
               /\ UNCHANGED products
       /\ (reqs[s].pc = "approve_p" /\ reqs'[s] # reqs[s])
            => /\ reqs'[s].pc = "done" /\ reqs'[s].outcome = "ok"
               /\ Stock(reqs[s].pid)' = Stock(reqs[s].pid) - reqs[s].doc.quantity
               /\ \A p \in ProductIds \ {reqs[s].pid} : products'[p] = products[p]
               /\ UNCHANGED handovers]_vars

\* C14 witness: an approve of a pending request has been answered ok; the record is
\* handed_over by the approver and the stock is the loaded stock less its quantity.
ApproveDone ==
  \E s \in Slots :
    /\ Done(s, "approve") /\ reqs[s].outcome = "ok" /\ reqs[s].doc.status = "pending"
    /\ handovers[reqs[s].hid].status = "handed_over"
    /\ handovers[reqs[s].hid].handedOverBy = "a1"
    /\ Stock(reqs[s].pid) = reqs[s].lq - reqs[s].doc.quantity

\* C15: no step of an employee request changes a product; its first step stores
\* nothing, and its save inserts one record in status pending with the requester as
\* employee, no handedOverBy, and the body's product and quantity, whatever the
\* stock is.
RequestLeavesStock ==
  [][\A s \in Slots :
       /\ (Launched(s) /\ reqs'[s].op = "request")
            => UNCHANGED <<products, handovers, created>>
       /\ (reqs[s].pc = "request_h" /\ reqs'[s] # reqs[s])
            => /\ created' = created + 1
               /\ handovers[created'] = NoDoc
               /\ handovers'[created'].status = "pending"
               /\ handovers'[created'].employee = reqs[s].actor
               /\ handovers'[created'].handedOverBy = NoUser
               /\ handovers'[created'].product = reqs[s].pid
               /\ handovers'[created'].quantity = reqs[s].qty
               /\ \A h \in HandoverIds \ {created'} : handovers'[h] = handovers[h]
               /\ reqs'[s].pc = "done" /\ reqs'[s].outcome = "ok"
               /\ UNCHANGED products]_vars

\* C15 witness: a request for more than the product's stock has been answered ok and
\* its record is stored pending.
RequestBeyondStockDone ==
  \E s \in Slots :
    /\ Done(s, "request") /\ reqs[s].outcome = "ok"
    /\ reqs[s].qty > Stock(reqs[s].pid) /\ Stock(reqs[s].pid) >= 0
    /\ handovers[reqs[s].hid].status = "pending"
    /\ handovers[reqs[s].hid].employee \in {"e1", "e2"}

\* C16: no step of a reject changes a product; a reject that passes its checks loaded
\* a pending record, and its save stores status rejected, rejectedBy the caller and
\* the body's rejectionReason, trimmed, on that record and changes no other record.
RejectLeavesStock ==
  [][\A s \in Slots :
       /\ (Launched(s) /\ reqs'[s].op = "reject")
            => /\ UNCHANGED <<products, handovers>>
               /\ reqs'[s].pc = "reject_h" => reqs'[s].doc.status = "pending"
       /\ (reqs[s].pc = "reject_h" /\ reqs'[s] # reqs[s])
            => /\ handovers' = [handovers EXCEPT ![reqs[s].hid] =
                                  [@ EXCEPT !.status = "rejected",
                                            !.rejectedBy = reqs[s].actor,
                                            !.rejectionReason =
                                              IF reqs[s].arg = "out of budget"
                                              THEN "out of budget" ELSE ""]]
               /\ reqs[s].arg \in Reasons \ {""}
               /\ reqs'[s].pc = "done" /\ reqs'[s].outcome = "ok"
               /\ UNCHANGED products]_vars

\* C16 witness: a reject of a pending request has been answered ok and the record is
\* stored rejected with the rejecter and the reason.
RejectDone ==
  \E s \in Slots :
    /\ Done(s, "reject") /\ reqs[s].outcome = "ok" /\ reqs[s].doc.status = "pending"
    /\ handovers[reqs[s].hid].status = "rejected"
    /\ handovers[reqs[s].hid].rejectedBy = "a1"
    /\ handovers[reqs[s].hid].rejectionReason = "out of budget"

\* C17: when the first request on the product is a direct issue and the second a
\* manager return of that record, the record ends in status returned and the
\* product's stock is again what it was before the issue.
RoundTripRestoresStock ==
  \A s \in Slots :
    (/\ ops = 2 /\ Done(s, "mreturn") /\ reqs[s].outcome = "ok"
     /\ reqs[s].doc.status = "handed_over")
      => /\ handovers[reqs[s].hid].status = "returned"
         /\ committed[reqs[s].hid] = reqs[s].doc.quantity
         /\ Stock(reqs[s].pid) = baseline[reqs[s].pid]

\* C17 witness: a stock of 2 went to 0 by an issue of 2 and is 2 again after the
\* manager return.
RoundTripDone ==
  \E s \in Slots :
    /\ ops = 2 /\ Done(s, "mreturn") /\ reqs[s].outcome = "ok"
    /\ reqs[s].doc.status = "handed_over" /\ reqs[s].doc.quantity = 2
    /\ reqs[s].lq = 0
    /\ handovers[reqs[s].hid].status = "returned"
    /\ Stock(reqs[s].pid) = 2 /\ baseline[reqs[s].pid] = 2

\* C18: a delete of an existing record goes on to restore stock exactly when the
\* record is handed_over (and its product exists); the restoring step adds the
\* record's quantity to that product and to no other, and the last step removes the
\* record and changes no product. A delete of a pending, rejected or returned record
\* consists of the removing step alone.
DeleteRestoresHandedOver ==
  [][\A s \in Slots :
       /\ (Launched(s) /\ reqs'[s].op = "delete")
            => /\ UNCHANGED <<products, handovers>>
               /\ reqs'[s].doc # NoDoc
                    => /\ reqs'[s].pc \in {"delete_p", "delete_r"}
                       /\ reqs'[s].pc = "delete_p"
                            <=> /\ reqs'[s].doc.status = "handed_over"
                                /\ products[reqs'[s].doc.product] # NoDoc
       /\ (reqs[s].pc = "delete_p" /\ reqs'[s] # reqs[s])
            => /\ products' = [products EXCEPT ![reqs[s].pid] =
                                 [quantity |-> products[reqs[s].pid].quantity
                                                 + reqs[s].doc.quantity]]
               /\ reqs'[s].pc = "delete_r"
               /\ UNCHANGED handovers
       /\ (reqs[s].pc = "delete_r" /\ reqs'[s] # reqs[s])
            => /\ handovers' = [handovers EXCEPT ![reqs[s].hid] = NoDoc]
               /\ reqs'[s].pc = "done" /\ reqs'[s].outcome = "ok"
               /\ UNCHANGED products]_vars

\* C18 witness: a handed_over record has been deleted and its quantity is back in
\* the product's stock.
DeleteHandedOverDone ==
  \E s \in Slots :
    /\ Done(s, "delete") /\ reqs[s].outcome = "ok"
    /\ reqs[s].doc.status = "handed_over" /\ reqs[s].doc.quantity >= 1
    /\ handovers[reqs[s].hid] = NoDoc
    /\ Stock(reqs[s].pid) = reqs[s].lq + reqs[s].doc.quantity

\* C19: an employee return with a well-formed body that finds a record whose
\* employee is not the caller is answered forbidden at once, whatever the status of
\* the record, and changes no record and no product; and when every id resolves to
\* a record and none of them belongs to the caller, no employee return of that
\* caller is answered anything but forbidden (in particular not notfound).
ForeignReturnForbidden ==
  [][\A s \in Slots :
       (Launched(s) /\ reqs'[s].op = "ereturn")
         => /\ (reqs'[s].doc # NoDoc /\ reqs'[s].doc.employee # reqs'[s].actor)
                 => /\ reqs'[s].doc = handovers[reqs'[s].hid]
                    /\ reqs'[s].pc = "done" /\ reqs'[s].outcome = "forbidden"
                    /\ UNCHANGED <<products, handovers>>
            /\ (/\ reqs'[s].actor # NoUser
                /\ \A h \in HandoverIds :
                     handovers[h] # NoDoc /\ handovers[h].employee # reqs'[s].actor)
                 => /\ reqs'[s].pc = "done" /\ reqs'[s].outcome = "forbidden"
                    /\ UNCHANGED <<products, handovers>>]_vars

\* C19 witness: employee e2, who may return handovers, has been refused the return
\* of a rejected record of another employee, and the record is as it was.
ForeignReturnRefused ==
  \E s \in Slots :
    /\ Done(s, "ereturn") /\ reqs[s].outcome = "forbidden"
    /\ reqs[s].actor = "e2" /\ Permissions(RoleOf("e2")).canReturnHandover
    /\ reqs[s].doc # NoDoc /\ reqs[s].doc.employee # "e2"
    /\ reqs[s].doc.status = "rejected"
    /\ handovers[reqs[s].hid] = reqs[s].doc

\* The permission each handover route names in its checkPermission middleware.
RequiredPermission(op) ==
  CASE op \in {"issue", "approve", "reject", "mreturn", "delete"} -> "canManageProducts"
    [] op = "request" -> "canRequestHandover"
    [] op = "ereturn" -> "canReturnHandover"

HandoverOps == {"issue", "approve", "reject", "mreturn", "delete", "request", "ereturn"}

\* C20: a request on a handover route by an actor whose permissions lack the
\* route's capability is answered forbidden at once with nothing loaded; a request
\* that is let past its first step belongs to an actor with the capability; and
\* every step of such a request that changes a record or a product is a step of an
\* actor with the capability.
CapabilityGating ==
  [][\A s \in Slots :
       /\ (Launched(s) /\ reqs'[s].op \in HandoverOps)
            => /\ UNCHANGED <<products, handovers>>
               /\ (/\ reqs'[s].actor \in Users
                   /\ ~Permissions(RoleOf(reqs'[s].actor))[RequiredPermission(reqs'[s].op)])
                    => /\ reqs'[s].pc = "done" /\ reqs'[s].outcome = "forbidden"
                       /\ reqs'[s].doc = NoDoc
               /\ reqs'[s].pc # "done"
                    => /\ reqs'[s].actor \in Users
                       /\ Permissions(RoleOf(reqs'[s].actor))[RequiredPermission(reqs'[s].op)]
       /\ (/\ reqs[s].op \in HandoverOps /\ InFlight(s) /\ reqs'[s] # reqs[s]
           /\ <<products, handovers>>' # <<products, handovers>>)
            => /\ reqs[s].actor \in Users
               /\ Permissions(RoleOf(reqs[s].actor))[RequiredPermission(reqs[s].op)]]_vars

\* C20 witness: employee e1, who lacks canManageProducts, has been refused an
\* approve while a pending record is in the store.
ApproveDenied ==
  \E s \in Slots :
    /\ Done(s, "approve") /\ reqs[s].outcome = "forbidden"
    /\ reqs[s].actor = "e1" /\ ~Permissions(RoleOf("e1")).canManageProducts
    /\ reqs[s].doc = NoDoc
    /\ \E h \in HandoverIds : handovers[h] # NoDoc /\ handovers[h].status = "pending"

\* C21: a request that fails a guard (issue or approve of more than the stock,
\* approve or reject of a record that is not pending, employee return of a record of
\* someone else, of a record that is not handed_over, or of more than what is left
\* of the record, manager return of a returned record) is answered at once with an
\* error outcome, and no record and no product changes.
GuardFailureLeavesState ==
  [][\A s \in Slots :
       LET rq == reqs'[s]
           loaded == rq.doc # NoDoc
           failed ==
             \/ rq.op = "issue" /\ rq.qty >= 1 /\ products[rq.pid] # NoDoc
                  /\ products[rq.pid].quantity < rq.qty
             \/ rq.op = "approve" /\ loaded /\ rq.lq # NoQty /\ rq.lq < rq.doc.quantity
             \/ rq.op \in {"approve", "reject"} /\ loaded /\ rq.doc.status # "pending"
             \/ rq.op = "mreturn" /\ loaded /\ rq.doc.status = "returned"
             \/ rq.op = "ereturn" /\ loaded /\ rq.actor # NoUser
                  /\ \/ rq.doc.employee # rq.actor
                     \/ rq.doc.status # "handed_over"
                     \/ rq.qty > rq.doc.quantity - returnedSum[rq.hid]
       IN  (Launched(s) /\ failed)
             => /\ rq.pc = "done"
                /\ rq.outcome \in {"insufficient", "notpending", "already", "forbidden",
                                   "notactive", "exceeds"}
                /\ UNCHANGED <<products, handovers>>]_vars

\* C22: on a store of pending requests, when the first request served approved
\* record g and the second is an approve of another pending record h of the same
\* product, the first took g's quantity from the stock the product started with,
\* and the second is decided by the stock left at that time: with less than h's
\* quantity left it is answered insufficient, h stays pending and the stock stays;
\* otherwise h is handed over and its quantity is taken too.
PendingReservesNothing ==
  \A s \in Slots : \A g \in HandoverIds :
    (/\ ops = 2 /\ Done(s, "approve") /\ reqs[s].doc # NoDoc
     /\ reqs[s].doc.status = "pending" /\ g # reqs[s].hid
     /\ handovers[g] # NoDoc /\ handovers[g].status = "handed_over"
     /\ handovers[g].product = reqs[s].pid /\ products[reqs[s].pid] # NoDoc)
      => LET left == baseline[reqs[s].pid] - handovers[g].quantity
             h == reqs[s].hid
         IN  /\ left >= 0 /\ committed[g] = handovers[g].quantity
             /\ reqs[s].lq = left
             /\ IF left < reqs[s].doc.quantity
                 THEN /\ reqs[s].outcome = "insufficient"
                      /\ handovers[h] = reqs[s].doc
                      /\ Stock(reqs[s].pid) = left
                 ELSE /\ reqs[s].outcome = "ok"
                      /\ handovers[h].status = "handed_over"
                      /\ Stock(reqs[s].pid) = left - reqs[s].doc.quantity

\* C22 witness: two pending requests of 1 each stood against a stock of 1; the first
\* approve took the unit, the second was answered insufficient and its record is
\* still pending.
SecondApproveShort ==
  \E s \in Slots : \E g \in HandoverIds \ {reqs[s].hid} :
    /\ ops = 2 /\ Done(s, "approve") /\ reqs[s].outcome = "insufficient"
    /\ reqs[s].doc # NoDoc /\ handovers[g] # NoDoc
    /\ handovers[g].status = "handed_over" /\ committed[g] = 1
    /\ reqs[s].doc.quantity + handovers[g].quantity > baseline["p1"]
    /\ baseline["p1"] = 1 /\ Stock("p1") = 0
    /\ handovers[reqs[s].hid].status = "pending"

\* C28: a stock adjustment is let past its first step only with operation add or
\* subtract and a positive quantity, and a subtract only when the stock is at least
\* the quantity; a subtract of more than the stock is answered insufficient; the
\* first step changes nothing. The saving step sets the stock to the stock plus the
\* quantity for add, whatever the result, and to the stock minus the quantity for
\* subtract, and changes no other product and no record.
StockAdjustment ==
  [][\A s \in Slots :
       /\ (Launched(s) /\ reqs'[s].op = "stock")
            => /\ UNCHANGED <<products, handovers>>
               /\ reqs'[s].pc \in {"done", "stock_p"}
               /\ reqs'[s].pc = "done"
                    => reqs'[s].outcome \in {"forbidden", "invalid", "notfound", "insufficient"}
               /\ reqs'[s].outcome = "insufficient"
                    => /\ reqs'[s].lq = products[reqs'[s].pid].quantity
                       /\ reqs'[s].lq < reqs'[s].qty
               /\ reqs'[s].pc = "stock_p"
                    => /\ reqs'[s].arg \in {"add", "subtract"} /\ reqs'[s].qty >= 1
                       /\ reqs'[s].lq = products[reqs'[s].pid].quantity
                       /\ reqs'[s].arg = "subtract" => reqs'[s].lq >= reqs'[s].qty
       /\ (reqs[s].pc = "stock_p" /\ reqs'[s] # reqs[s])
            => /\ products' = [products EXCEPT ![reqs[s].pid] =
                                 [quantity |-> IF reqs[s].arg = "add"
                                               THEN products[reqs[s].pid].quantity + reqs[s].qty
                                               ELSE products[reqs[s].pid].quantity - reqs[s].qty]]
               /\ reqs'[s].pc = "done" /\ reqs'[s].outcome = "ok"
               /\ UNCHANGED handovers]_vars

\* C28 witness: an add has been answered ok and has taken the stock above every
\* value the stock is set to from outside.
StockAddedDone ==
  \E s \in Slots :
    /\ Done(s, "stock") /\ reqs[s].outcome = "ok" /\ reqs[s].amt >= 1
    /\ Stock(reqs[s].pid) = reqs[s].lq + reqs[s].qty
    /\ Stock(reqs[s].pid) > MaxRaceStock

ActorFieldsFollowTransitions ==
  [][/\ \A h \in HandoverIds :
          /\ (handovers[h] # NoDoc /\ handovers[h].status = "handed_over")
               => handovers[h].handedOverBy # NoUser
          /\ (handovers'[h] # NoDoc /\ handovers'[h].status = "handed_over")
               => handovers'[h].handedOverBy # NoUser
          /\ (handovers[h] = NoDoc /\ handovers'[h] # NoDoc)
               => handovers'[h].rejectedBy = NoUser /\ handovers'[h].returnedBy = NoUser
          /\ (handovers[h] # NoDoc /\ handovers'[h] # NoDoc
                /\ handovers'[h].rejectedBy # handovers[h].rejectedBy)
               => \E s \in Slots : /\ reqs[s].pc = "reject_h" /\ reqs[s].hid = h
                                    /\ reqs'[s] # reqs[s]
                                    /\ handovers'[h].rejectedBy = reqs[s].actor
          /\ (handovers[h] # NoDoc /\ handovers'[h] # NoDoc
                /\ handovers'[h].returnedBy # handovers[h].returnedBy)
               => \E s \in Slots : /\ reqs[s].pc \in {"mreturn_h", "ereturn_h"}
                                    /\ reqs[s].hid = h /\ reqs'[s] # reqs[s]
                                    /\ handovers'[h].returnedBy = reqs[s].actor]_vars

\* C30 witness: of an approve and a reject that overlapped on one pending record the
\* approve saved last: the record is handed_over with its approver and still names
\* the rejecter.
HandedOverAfterRacingReject ==
  \E h \in HandoverIds :
    /\ handovers[h] # NoDoc /\ handovers[h].status = "handed_over"
    /\ handovers[h].handedOverBy = "a1" /\ handovers[h].rejectedBy = "a1"
    /\ handovers[h].returnedBy = NoUser

\* C23: every stored user other than the failsafe account carries exactly the flags of
\* its current role, whatever register, login, create, update, fix-permissions,
\* toggle-status, profile and password requests were served before: add, edit and
\* manage products for admin and manager, delete products and manage users for
\* admin alone, request and return handover for employee alone.
PermissionsFollowRole ==
  \A a \in AccountIds :
    accounts[a] # NoDoc /\ accounts[a].email # FAILSAFE_EMAIL =>
      LET role == accounts[a].role
          flags == accounts[a].permissions IN
        /\ flags.canViewProducts
        /\ flags.canAddProducts = (role \in {"admin", "manager"})
        /\ flags.canEditProducts = (role \in {"admin", "manager"})
        /\ flags.canManageProducts = (role \in {"admin", "manager"})
        /\ flags.canDeleteProducts = (role = "admin")
        /\ flags.canManageUsers = (role = "admin")
        /\ flags.canRequestHandover = (role = "employee")
        /\ flags.canReturnHandover = (role = "employee")

\* The only user ever created was updated to manager: it was the admin that sent the
\* request, and it lost the admin flags with the role.
AdminDemotedItself ==
  /\ enrolled = 1
  /\ reply = [op |-> "update", id |-> 1, status |-> 200]
  /\ accounts[1] # NoDoc
  /\ accounts[1].email # FAILSAFE_EMAIL
  /\ accounts[1].role = "manager"
  /\ ~accounts[1].permissions.canManageUsers
  /\ accounts[1].permissions.canAddProducts

\* C24: the failsafe account, once stored, is left as it is by every request (same
\* document: email, password, role, active flag), and every stored document with the
\* failsafe email is active and admin with all the admin flags; no update, delete,
\* toggle-status, profile or change-password request removes or changes it, whoever
\* sends it.
FailsafeStays ==
  [][\A a \in AccountIds :
       /\ accounts[a] # NoDoc /\ accounts[a].email = FAILSAFE_EMAIL => accounts'[a] = accounts[a]
       /\ accounts'[a] # NoDoc /\ accounts'[a].email = FAILSAFE_EMAIL =>
            /\ accounts'[a].isActive
            /\ accounts'[a].role = "admin"
            /\ accounts'[a].permissions.canAddProducts
            /\ accounts'[a].permissions.canEditProducts
            /\ accounts'[a].permissions.canDeleteProducts
            /\ accounts'[a].permissions.canManageProducts
            /\ accounts'[a].permissions.canManageUsers]_vars

\* The failsafe account is the only user ever created and asked for its own deletion:
\* the request passed the admin gate and was refused by the failsafe guard.
FailsafeSelfDeleteRefused ==
  /\ enrolled = 1
  /\ accounts[1] # NoDoc
  /\ accounts[1].email = FAILSAFE_EMAIL
  /\ reply = [op |-> "delete", id |-> 1, status |-> 403]

IdsStable ==
  /\ \A h \in Handles : Cardinality(held[h]) <= 1
  /\ \A h, g \in Handles : h # g => held[h] \cap held[g] = {}

\* C26: with creations and deletions overlapping, no two stored products hold the same
\* productId, and when no request is in flight the counter is not below the
\* productId of any stored product.
ResequencingIsolated ==
  /\ \A h, g \in Live : h # g => catalog[h].productId # catalog[g].productId
  /\ JobsAtRest => \A h \in Live : catalog[h].productId <= seq

\* C36: no request stores a new user document whose email is the failsafe email:
\* neither the admin's user creation nor the public registration does.
FailsafeEmailNeverCreated ==
  [][\A a \in AccountIds :
       accounts[a] = NoDoc /\ accounts'[a] # NoDoc => accounts'[a].email # FAILSAFE_EMAIL]_vars

\* C37: a user that was created and is now deactivated or deleted gets 401 for every
\* request it sends with its token, and the request changes no user document; this
\* lasts until the user is reactivated.
SuspendedUserRefused ==
  [][\/ reply'.status = 401 /\ accounts' = accounts /\ enrolled' = enrolled
     \/ \A a \in 1..enrolled :
          accounts[a] = NoDoc \/ ~accounts[a].isActive => ~UserRequests(a, OrdinaryEmails, Roles)]_vars

\* A deactivated user asked for its own profile update and got 401.
DeactivatedProfileRefused ==
  /\ reply.op = "profile"
  /\ reply.status = 401
  /\ accounts[reply.id] # NoDoc
  /\ ~accounts[reply.id].isActive

\* C35: a product update answered 200 whose body carries the valid stockQuantity n
\* (any integer n >= 0, zero included) leaves the product with stock.quantity n.
UpdateSetsQuantity ==
  \A s \in Slots :
    /\ Done(s, "update")
    /\ reqs[s].outcome = "ok"
    /\ reqs[s].qty >= 0
    /\ products[reqs[s].pid] # NoDoc
    => products[reqs[s].pid].quantity = reqs[s].qty

\* C32: over the life of one handover that was handed over, whatever mix of employee
\* returns, manager return and deletion it goes through, the stock released for it
\* never exceeds its quantity, and once it is returned or deleted the stock released
\* for it is its quantity (as long as its product is stored).
ReleasedWithinQuantity ==
  \A h \in HandoverIds :
    committed[h] > 0 =>
      /\ released[h] <= committed[h]
      /\ handovers[h] # NoDoc => released[h] <= handovers[h].quantity
      /\ ( /\ Quiescent
           /\ products["p1"] # NoDoc
           /\ (handovers[h] = NoDoc \/ handovers[h].status = "returned") )
         => released[h] = committed[h]

\* C33: an approve and a reject that overlap on the same pending record: at most one
\* of them is answered ok, and when both are answered the stock has been decreased by
\* the record's quantity exactly if the record is handed_over.
ApproveRejectExclusive ==
  \A s, t \in Slots :
    ( /\ Done(s, "approve") /\ Done(t, "reject")
      /\ reqs[s].over /\ reqs[t].over
      /\ reqs[s].hid = reqs[t].hid
      /\ reqs[s].doc # NoDoc /\ reqs[t].doc # NoDoc
      /\ reqs[s].doc.status = "pending" /\ reqs[t].doc.status = "pending" )
    => /\ ~(reqs[s].outcome = "ok" /\ reqs[t].outcome = "ok")
       /\ (reqs[s].amt = 0 - reqs[s].doc.quantity)
            <=> (handovers[reqs[s].hid].status = "handed_over")

\* C34: on a handover whose product has been deleted, an approve, manager return,
\* employee return or handover delete that is answered with an error has left the
\* record with the status it loaded.
NoErrorAfterStatusChange ==
  \A s \in Slots :
    ( /\ reqs[s].pc = "done"
      /\ reqs[s].op \in {"approve", "mreturn", "ereturn", "delete"}
      /\ reqs[s].outcome = "error"
      /\ reqs[s].doc # NoDoc
      /\ products[reqs[s].pid] = NoDoc )
    => /\ handovers[reqs[s].hid] # NoDoc
       /\ handovers[reqs[s].hid].status = reqs[s].doc.status

\* C31: every step that changes the stock.quantity of a stored product (handover
\* commit or release, direct add or subtract, product update with a new
\* stockQuantity) stamps its stock.lastRestocked with the time of the step.
RestockStamped ==
  [][\A p \in ProductIds :
       (products[p] # NoDoc /\ products'[p] # NoDoc
        /\ products'[p].quantity # products[p].quantity)
       => lastRestocked'[p] = "now"]_vars

====
